---- MODULE Spec2Model ----
(***************************************************************************)
(* Model of src/src/platforms/github.ts (class GitHubPlatform): the diff   *)
(* position index (parseDiffPositionMap), the position resolver            *)
(* (findPositionInMap), the comment planner (prepareComments) and the      *)
(* delivery pipeline (submitBatchReviewComments and the methods it calls). *)
(*                                                                         *)
(* Six specifications share the variables:                                 *)
(*   Spec        the delivery pipeline, one action per awaited request     *)
(*   SpecPlan    prepareComments applied to bounded inputs, once or twice  *)
(*   SpecResolve findPositionInMap applied to bounded inputs               *)
(*   SpecParse   the line loop of parseDiffPositionMap                     *)
(*   SpecReparse parseDiffPositionMap called twice on the same text        *)
(*   SpecComment submitReviewComment, one action per awaited request       *)
(***************************************************************************)
EXTENDS Integers, Sequences, FiniteSets, TLC

(***************************************************************************)
(* Bounds of the model.                                                    *)
(***************************************************************************)
MaxLineComments == 25
MaxFileComments == 2
MaxSkipped == 3
MaxLine == 5
MaxEntries == 2
MaxResults == 2
MaxFindings == 3
MaxDiffLines == 6
MaxTextLines == 4

(***************************************************************************)
(* Program constants.                                                      *)
(***************************************************************************)
batchSize == 10

(***************************************************************************)
(* Paths are sequences of characters, so that the parser's regular         *)
(* expression can be applied to them: the files "x" and "b/x".             *)
(***************************************************************************)
Files == {<<"x">>, <<"b", "/", "x">>}
Shas == {"sha1", "sha2"}

VARIABLES
  pc,               \* position of the run inside submitBatchReviewComments
  diffOutcome,      \* answer to the request of getPullRequestDiff ("none" before it)
  shaOutcome,       \* answer to the request of getHeadCommitSha ("none" before it)
  commitId,         \* const commitId (line 303)
  lineComments,     \* prepareComments(...).lineComments
  fileComments,     \* prepareComments(...).fileComments
  skippedComments,  \* prepareComments(...).skippedComments
  i,                \* loop variable of submitLineCommentsInBatches
  batch,            \* comments.slice(i, i + batchSize)
  j,                \* comments of batch already handled by submitCommentsIndividually
  successCount,     \* let successCount (line 580)
  failCount,        \* let failCount (line 581)
  fileIdx,          \* fileComments already handled by submitFileComments
  commentsByFile,   \* the grouping built by handleSkippedComments
  skipIdx,          \* entries of commentsByFile already submitted
  requests,         \* every request sent to the forge so far, in order
  batchOutcomes,    \* the answers to the batch review requests, in order
  firstFailed,      \* while submitCommentsIndividually runs: index in batch of
                    \* the first individual submission that failed (0: none)
  undelivered,      \* TRUE once the last submission of some line comment has
                    \* failed: its batch failed without a fallback, or its
                    \* individual submission failed
  pauses,           \* 1500 ms pauses of submitLineCommentsInBatches so far
  pausedAfter,      \* while submitCommentsIndividually runs: TRUE when the
                    \* 500 ms pause (line 671) followed its latest submission
  positionMap,      \* Map<string, Map<number, number>>: file -> entries
                    \* [line, position] in insertion order
  results,          \* the ReviewResult[] handed to prepareComments
  planned,          \* TRUE once prepareComments has returned
  firstPlan,        \* what the first of two calls of prepareComments returned
                    \* (<<>> until there is a second call)
  filePath,         \* findPositionInMap: parameter filePath
  lineNumber,       \* findPositionInMap: parameter lineNumber (0 before the call)
  found,            \* findPositionInMap: the value returned
  lines,            \* parseDiffPositionMap: the lines of diffText read so far
  currentFile,      \* parseDiffPositionMap: let currentFile
  currentPosition,  \* parseDiffPositionMap: let currentPosition
  currentNewLine,   \* parseDiffPositionMap: let currentNewLine
  inHunk,           \* parseDiffPositionMap: let inHunk
  calls,            \* calls of parseDiffPositionMap on the text `lines` so far
  read,             \* lines of the text the running call has gone through
  firstIndex,       \* the index returned by the first of two calls
  cpc,              \* position of the call inside submitReviewComment
  lineArg,          \* submitReviewComment: parameter line (0: undefined or 0)
  headSha,          \* submitReviewComment: const commitId (line 145)
  fetches,          \* the requests submitReviewComment has sent, in order
  answers           \* the answers to them, in the same order

pipeVars == <<pc, diffOutcome, shaOutcome, commitId, i, batch, j, successCount,
              failCount, fileIdx, commentsByFile, skipIdx, requests,
              batchOutcomes, firstFailed, undelivered, pauses, pausedAfter>>
planVars == <<lineComments, fileComments, skippedComments>>
planInputVars == <<results, planned, firstPlan>>
resolveVars == <<filePath, lineNumber, found>>
parseVars == <<lines, currentFile, currentPosition, currentNewLine, inHunk,
               calls, read, firstIndex>>
commentVars == <<cpc, lineArg, headSha, fetches, answers>>
vars == <<pipeVars, planVars, planInputVars, resolveVars, parseVars, positionMap,
          commentVars>>

Min(a, b) == IF a < b THEN a ELSE b

(***************************************************************************)
(* Array.prototype.slice(from, to) on a 0-based array held as a 1-based    *)
(* sequence.                                                               *)
(***************************************************************************)
SliceInclusive(s, from, to) == SubSeq(s, from + 1, Min(to + 1, Len(s)))

Slice(s, from, to) == SubSeq(s, from + 1, Min(to, Len(s)))

(***************************************************************************)
(* Requests.  A review request is POST .../pulls/{id}/reviews with         *)
(* {commit_id, event: 'COMMENT', comments}; a top-level comment is         *)
(* POST .../issues/{id}/comments with {body}.  `via` names the call site.  *)
(***************************************************************************)
ReviewRequestAtOtherHead(via, commit, comments) ==
  [api |-> "reviews", via |-> via,
   commit |-> IF via = "individual" THEN "sha1" ELSE commit,
   comments |-> comments, body |-> <<>>]

ReviewRequest(via, commit, comments) ==
  [api |-> "reviews", via |-> via, commit |-> commit, comments |-> comments,
   body |-> <<>>]

CommentRequest(via, body) ==
  [api |-> "comments", via |-> via, commit |-> "", comments |-> <<>>,
   body |-> body]

(***************************************************************************)
(* Outcomes of one awaited request.  A review request is accepted,         *)
(* rejected with 422, rejected with another status, or fails in transport  *)
(* (fetch rejects, or the body of a rejection cannot be read: both land    *)
(* in the same catch block).                                               *)
(***************************************************************************)
ReviewOutcomes == {"ok", "422", "rejected", "exception"}
CommentOutcomes == {"ok", "rejected", "exception"}
FetchOutcomes == {"ok", "rejected", "exception"}

(***************************************************************************)
(* The plans the pipeline can be handed by prepareComments: n line         *)
(* comments told apart by their body, file comments for distinct files,    *)
(* skipped comments of any files.                                          *)
(***************************************************************************)
LinePlan(n) == [x \in 1..n |-> [path |-> <<"x">>, position |-> 1, body |-> x]]

FileCommentsOf(fs) ==
  [x \in 1..Len(fs) |-> [file |-> fs[x], issues |-> <<[line |-> 0, id |-> x]>>]]

FilePlans ==
  {FileCommentsOf(fs) :
     fs \in {gs \in UNION {[1..m -> Files] : m \in 0..MaxFileComments} :
               \A x, y \in 1..Len(gs) : gs[x] = gs[y] => x = y}}

SkippedOf(fs) ==
  [x \in 1..Len(fs) |-> [file |-> fs[x], line |-> x, issue |-> [line |-> x, id |-> x]]]

SkippedPlans ==
  {SkippedOf(fs) : fs \in UNION {[1..m -> Files] : m \in 0..MaxSkipped}}

(***************************************************************************)
(* submitBatchReviewComments, lines 311-329: the stage that runs next,     *)
(* looking from stage `from` on, given the lengths of the three buckets.   *)
(***************************************************************************)
StageFromFilesFirst(from, nLine, nFile, nSkipped) ==
  IF from = "batch" /\ nFile > 0 THEN "files"
  ELSE IF from \in {"batch", "skipped"} /\ nLine > 0 THEN "batch"
  ELSE IF from \in {"batch", "files", "skipped"} /\ nSkipped > 0 THEN "skipped"
  ELSE "summary"

StageFrom(from, nLine, nFile, nSkipped) ==
  IF from = "batch" /\ nLine > 0 THEN "batch"
  ELSE IF from \in {"batch", "files"} /\ nFile > 0 THEN "files"
  ELSE IF from \in {"batch", "files", "skipped"} /\ nSkipped > 0 THEN "skipped"
  ELSE "summary"

(***************************************************************************)
(* handleSkippedComments, lines 708-718: group by file, files in order of  *)
(* first occurrence (Map insertion order), items in input order.           *)
(***************************************************************************)
RECURSIVE GroupByFileLatestLast(_, _)
GroupByFileLatestLast(skipped, acc) ==
  IF skipped = <<>> THEN acc
  ELSE LET comment == Head(skipped)
           item == [line |-> comment.line, issue |-> comment.issue]
           at == {x \in 1..Len(acc) : acc[x].file = comment.file}
       IN IF at = {}
          THEN GroupByFileLatestLast(Tail(skipped),
                 Append(acc, [file |-> comment.file, issues |-> <<item>>]))
          ELSE LET x == CHOOSE y \in at : TRUE
                   others == [y \in 1..(Len(acc) - 1) |->
                                IF y < x THEN acc[y] ELSE acc[y + 1]]
               IN GroupByFileLatestLast(Tail(skipped),
                    Append(others,
                           [acc[x] EXCEPT !.issues = Append(@, item)]))

RECURSIVE GroupByFile(_, _)
GroupByFile(skipped, acc) ==
  IF skipped = <<>> THEN acc
  ELSE LET comment == Head(skipped)
           item == [line |-> comment.line, issue |-> comment.issue]
           at == {x \in 1..Len(acc) : acc[x].file = comment.file}
       IN IF at = {}
          THEN GroupByFile(Tail(skipped),
                 Append(acc, [file |-> comment.file, issues |-> <<item>>]))
          ELSE LET x == CHOOSE y \in at : TRUE
               IN GroupByFile(Tail(skipped),
                    [acc EXCEPT ![x].issues = Append(@, item)])


(***************************************************************************)
(* The values the variables of the other specifications rest at.           *)
(***************************************************************************)
PipeIdle ==
  /\ pc = "idle"
  /\ diffOutcome = "none"
  /\ shaOutcome = "none"
  /\ commitId = ""
  /\ i = 0
  /\ batch = <<>>
  /\ j = 0
  /\ successCount = 0
  /\ failCount = 0
  /\ fileIdx = 0
  /\ commentsByFile = <<>>
  /\ skipIdx = 0
  /\ requests = <<>>
  /\ batchOutcomes = <<>>
  /\ firstFailed = 0
  /\ undelivered = FALSE
  /\ pauses = 0
  /\ pausedAfter = FALSE

PlanIdle ==
  /\ lineComments = <<>>
  /\ fileComments = <<>>
  /\ skippedComments = <<>>
  /\ results = <<>>
  /\ planned = FALSE
  /\ firstPlan = <<>>

ResolveIdle ==
  /\ filePath = <<>>
  /\ lineNumber = 0
  /\ found = -1

CommentIdle ==
  /\ cpc = "idle"
  /\ lineArg = 0
  /\ headSha = ""
  /\ fetches = <<>>
  /\ answers = <<>>

ParseIdle ==
  /\ lines = <<>>
  /\ currentFile = <<>>
  /\ currentPosition = 0
  /\ currentNewLine = 0
  /\ inHunk = FALSE
  /\ calls = 0
  /\ read = 0
  /\ firstIndex = <<>>

(***************************************************************************)
(*                        THE DELIVERY PIPELINE                            *)
(***************************************************************************)

(***************************************************************************)
(* State at the call of submitBatchReviewComments.                         *)
(***************************************************************************)
Init ==
  /\ pc = "getDiff"
  /\ diffOutcome = "none"
  /\ shaOutcome = "none"
  /\ commitId = ""
  /\ i = 0
  /\ batch = <<>>
  /\ j = 0
  /\ successCount = 0
  /\ failCount = 0
  /\ fileIdx = 0
  /\ commentsByFile = <<>>
  /\ skipIdx = 0
  /\ requests = <<>>
  /\ batchOutcomes = <<>>
  /\ firstFailed = 0
  /\ undelivered = FALSE
  /\ pauses = 0
  /\ pausedAfter = FALSE
  /\ PlanIdle
  /\ ResolveIdle
  /\ ParseIdle
  /\ CommentIdle
  /\ positionMap = <<>>

(***************************************************************************)
(* getPullRequestDiff lines 352-355, getHeadCommitSha lines 375-378: the   *)
(* method throws when the response is not ok; a rejected fetch throws by   *)
(* itself.                                                                 *)
(***************************************************************************)
PrerequisiteFailedOnExceptionOnly(outcome) == outcome = "exception"

PrerequisiteFailed(outcome) == outcome # "ok"

(***************************************************************************)
(* Line 614: if (reviewResponse.status === 422).                           *)
(***************************************************************************)
FallsBackOnAnyRejection(outcome) == outcome \in {"422", "rejected"}

FallsBack(outcome) == outcome = "422"

(***************************************************************************)
(* Line 295: await this.getPullRequestDiff().  The catch at line 333       *)
(* rethrows to the caller.                                                 *)
(***************************************************************************)
GetPullRequestDiff ==
  /\ pc = "getDiff"
  /\ \E outcome \in FetchOutcomes :
       /\ diffOutcome' = outcome
       /\ pc' = IF PrerequisiteFailed(outcome) THEN "threw" ELSE "getSha"
  /\ UNCHANGED <<shaOutcome, commitId, i, batch, j, successCount, failCount,
                 fileIdx, commentsByFile, skipIdx, requests, batchOutcomes,
                 firstFailed, undelivered, pauses, pausedAfter>>
  /\ UNCHANGED <<planVars, planInputVars, resolveVars, parseVars, positionMap,
                 commentVars>>

(***************************************************************************)
(* Lines 303-316: await this.getHeadCommitSha(), then prepareComments and  *)
(* the choice of the first stage.                                          *)
(***************************************************************************)
GetHeadCommitSha ==
  /\ pc = "getSha"
  /\ \E outcome \in FetchOutcomes :
       /\ shaOutcome' = outcome
       /\ IF PrerequisiteFailed(outcome)
          THEN /\ pc' = "threw"
               /\ UNCHANGED <<commitId, commentsByFile, planVars>>
          ELSE \E sha \in Shas, n \in 0..MaxLineComments,
                  fc \in FilePlans, sk \in SkippedPlans :
                 /\ commitId' = sha
                 /\ lineComments' = LinePlan(n)
                 /\ fileComments' = fc
                 /\ skippedComments' = sk
                 /\ pc' = StageFrom("batch", n, Len(fc), Len(sk))
                 /\ commentsByFile' =
                      IF StageFrom("batch", n, Len(fc), Len(sk)) = "skipped"
                      THEN GroupByFile(sk, <<>>) ELSE commentsByFile
  /\ UNCHANGED <<diffOutcome, i, batch, j, successCount, failCount, fileIdx,
                 skipIdx, requests, batchOutcomes, firstFailed, undelivered,
                 pauses, pausedAfter>>
  /\ UNCHANGED <<planInputVars, resolveVars, parseVars, positionMap,
                 commentVars>>

(***************************************************************************)
(* Line 627: the 1500 ms pause is taken when another batch follows the one *)
(* that started at index `at` of n comments.                               *)
(***************************************************************************)
PauseFollowsEveryBatch(at, n) == TRUE

PauseFollows(at, n) == at + batchSize < n

(***************************************************************************)
(* Lines 626-630 and 318-326: the end of one iteration of the batch loop.  *)
(* Another batch follows (after the 1500 ms pause) when                    *)
(* i + batchSize < comments.length; otherwise the method returns and the   *)
(* next non-empty stage starts.                                            *)
(***************************************************************************)
AfterBatchOverlapping ==
  /\ i' = i + batchSize - 1
  /\ pauses' = IF PauseFollows(i, Len(lineComments)) THEN pauses + 1 ELSE pauses
  /\ pc' = IF i + batchSize < Len(lineComments) THEN "batch"
           ELSE StageFrom("files", Len(lineComments), Len(fileComments),
                          Len(skippedComments))
  /\ commentsByFile' =
       IF /\ ~ (i + batchSize < Len(lineComments))
          /\ StageFrom("files", Len(lineComments), Len(fileComments),
                       Len(skippedComments)) = "skipped"
       THEN GroupByFile(skippedComments, <<>>) ELSE commentsByFile

AfterBatch ==
  /\ i' = i + batchSize
  /\ pauses' = IF PauseFollows(i, Len(lineComments)) THEN pauses + 1 ELSE pauses
  /\ pc' = IF i + batchSize < Len(lineComments) THEN "batch"
           ELSE StageFrom("files", Len(lineComments), Len(fileComments),
                          Len(skippedComments))
  /\ commentsByFile' =
       IF /\ ~ (i + batchSize < Len(lineComments))
          /\ StageFrom("files", Len(lineComments), Len(fileComments),
                       Len(skippedComments)) = "skipped"
       THEN GroupByFile(skippedComments, <<>>) ELSE commentsByFile

(***************************************************************************)
(* submitLineCommentsInBatches, lines 585-630: one iteration of the loop,  *)
(* up to the answer to the batch review request.                           *)
(***************************************************************************)
SubmitBatch ==
  /\ pc = "batch"
  /\ i < Len(lineComments)
  /\ LET b == Slice(lineComments, i, i + batchSize)
     IN /\ batch' = b
        /\ requests' = Append(requests, ReviewRequest("batch", commitId, b))
        /\ \E outcome \in ReviewOutcomes :
             /\ batchOutcomes' = Append(batchOutcomes, outcome)
             /\ IF outcome = "ok"
                THEN /\ successCount' = successCount + Len(b)
                     /\ failCount' = failCount
                     /\ undelivered' = undelivered
                ELSE /\ failCount' = failCount + Len(b)
                     /\ successCount' = successCount
                     /\ undelivered' = (undelivered \/ ~ FallsBack(outcome))
             /\ IF outcome \notin {"ok", "exception"} /\ FallsBack(outcome)
                THEN /\ pc' = "individual"
                     /\ UNCHANGED <<i, commentsByFile, pauses>>
                ELSE AfterBatch
  /\ j' = 0
  /\ firstFailed' = 0
  /\ pausedAfter' = FALSE
  /\ UNCHANGED <<diffOutcome, shaOutcome, commitId, fileIdx, skipIdx>>
  /\ UNCHANGED <<planVars, planInputVars, resolveVars, parseVars, positionMap,
                 commentVars>>

(***************************************************************************)
(* Lines 645-675: the 500 ms pause (line 671) is the last statement of the *)
(* try block, so it is taken when the response was read, accepted or not,  *)
(* and not when the catch block was entered.                               *)
(***************************************************************************)
PauseTaken(outcome) == outcome # "exception"

(***************************************************************************)
(* submitCommentsIndividually, lines 644-677: one iteration.  The try and  *)
(* catch sit inside the loop, so whatever the answer the loop goes on;     *)
(* after the last comment the method returns into the batch loop.          *)
(***************************************************************************)
SubmitIndividuallyAbortingOnFailure ==
  /\ pc = "individual"
  /\ j < Len(batch)
  /\ requests' = Append(requests,
                   ReviewRequest("individual", commitId, <<batch[j + 1]>>))
  /\ j' = j + 1
  /\ \E outcome \in ReviewOutcomes :
       /\ firstFailed' = IF j + 1 = Len(batch) \/ outcome # "ok" THEN 0
                         ELSE firstFailed
       /\ undelivered' = (undelivered \/ outcome # "ok")
       /\ pausedAfter' = (j + 1 < Len(batch) /\ outcome = "ok")
       /\ IF j + 1 < Len(batch) /\ outcome = "ok"
          THEN UNCHANGED <<pc, i, commentsByFile, pauses>>
          ELSE AfterBatch
  /\ UNCHANGED <<diffOutcome, shaOutcome, commitId, batch, successCount,
                 failCount, fileIdx, skipIdx, batchOutcomes>>
  /\ UNCHANGED <<planVars, planInputVars, resolveVars, parseVars, positionMap,
                 commentVars>>

SubmitIndividuallyCounting ==
  /\ pc = "individual"
  /\ j < Len(batch)
  /\ requests' = Append(requests,
                   ReviewRequest("individual", commitId, <<batch[j + 1]>>))
  /\ j' = j + 1
  /\ \E outcome \in ReviewOutcomes :
       /\ firstFailed' = IF j + 1 = Len(batch) THEN 0
                         ELSE IF outcome # "ok" /\ firstFailed = 0 THEN j + 1
                         ELSE firstFailed
       /\ undelivered' = (undelivered \/ outcome # "ok")
       /\ pausedAfter' = (j + 1 < Len(batch) /\ PauseTaken(outcome))
       /\ successCount' = IF outcome = "ok" THEN successCount + 1
                          ELSE successCount
       /\ failCount' = IF outcome = "ok" THEN failCount - 1 ELSE failCount
  /\ IF j + 1 < Len(batch)
     THEN UNCHANGED <<pc, i, commentsByFile, pauses>>
     ELSE AfterBatch
  /\ UNCHANGED <<diffOutcome, shaOutcome, commitId, batch, fileIdx, skipIdx,
                 batchOutcomes>>
  /\ UNCHANGED <<planVars, planInputVars, resolveVars, parseVars, positionMap,
                 commentVars>>

SubmitIndividually ==
  /\ pc = "individual"
  /\ j < Len(batch)
  /\ requests' = Append(requests,
                   ReviewRequest("individual", commitId, <<batch[j + 1]>>))
  /\ j' = j + 1
  /\ \E outcome \in ReviewOutcomes :
       /\ firstFailed' = IF j + 1 = Len(batch) THEN 0
                         ELSE IF outcome # "ok" /\ firstFailed = 0 THEN j + 1
                         ELSE firstFailed
       /\ undelivered' = (undelivered \/ outcome # "ok")
       /\ pausedAfter' = (j + 1 < Len(batch) /\ PauseTaken(outcome))
  /\ IF j + 1 < Len(batch)
     THEN UNCHANGED <<pc, i, commentsByFile, pauses>>
     ELSE AfterBatch
  /\ UNCHANGED <<diffOutcome, shaOutcome, commitId, batch, successCount,
                 failCount, fileIdx, skipIdx, batchOutcomes>>
  /\ UNCHANGED <<planVars, planInputVars, resolveVars, parseVars, positionMap,
                 commentVars>>

(***************************************************************************)
(* submitReviewSummary, lines 218-246: it throws when the comment is       *)
(* rejected (line 238) and rethrows a transport failure (line 244).        *)
(***************************************************************************)
SummaryThrows(outcome) == outcome # "ok"

(***************************************************************************)
(* submitFileComments, lines 686-692: one iteration.  Nothing catches what *)
(* submitReviewSummary throws before the catch at line 333.                *)
(***************************************************************************)
SubmitFileComment ==
  /\ pc = "files"
  /\ fileIdx < Len(fileComments)
  /\ requests' = Append(requests, CommentRequest("file", fileComments[fileIdx + 1]))
  /\ \E outcome \in CommentOutcomes :
       IF SummaryThrows(outcome)
       THEN /\ pc' = "threw"
            /\ UNCHANGED <<fileIdx, commentsByFile>>
       ELSE /\ fileIdx' = fileIdx + 1
            /\ pc' = IF fileIdx + 1 < Len(fileComments) THEN "files"
                     ELSE StageFrom("skipped", Len(lineComments),
                                    Len(fileComments), Len(skippedComments))
            /\ commentsByFile' =
                 IF fileIdx + 1 < Len(fileComments) \/ Len(skippedComments) = 0
                 THEN commentsByFile
                 ELSE GroupByFile(skippedComments, <<>>)
  /\ UNCHANGED <<diffOutcome, shaOutcome, commitId, i, batch, j, successCount,
                 failCount, skipIdx, batchOutcomes, firstFailed, undelivered,
                 pauses, pausedAfter>>
  /\ UNCHANGED <<planVars, planInputVars, resolveVars, parseVars, positionMap,
                 commentVars>>

(***************************************************************************)
(* handleSkippedComments, lines 721-734: one iteration over commentsByFile.*)
(***************************************************************************)
SubmitSkippedComment ==
  /\ pc = "skipped"
  /\ skipIdx < Len(commentsByFile)
  /\ requests' = Append(requests,
                   CommentRequest("skipped", commentsByFile[skipIdx + 1]))
  /\ \E outcome \in CommentOutcomes :
       IF SummaryThrows(outcome)
       THEN /\ pc' = "threw"
            /\ UNCHANGED skipIdx
       ELSE /\ skipIdx' = skipIdx + 1
            /\ pc' = IF skipIdx + 1 < Len(commentsByFile) THEN "skipped"
                     ELSE "summary"
  /\ UNCHANGED <<diffOutcome, shaOutcome, commitId, i, batch, j, successCount,
                 failCount, fileIdx, commentsByFile, batchOutcomes, firstFailed,
                 undelivered, pauses, pausedAfter>>
  /\ UNCHANGED <<planVars, planInputVars, resolveVars, parseVars, positionMap,
                 commentVars>>

(***************************************************************************)
(* submitFinalSummary, lines 740-759, called at line 329 with the lengths  *)
(* of the three buckets.                                                   *)
(***************************************************************************)
SubmitFinalSummary ==
  /\ pc = "summary"
  /\ requests' = Append(requests,
                   CommentRequest("summary",
                     [lineCommentCount |-> Len(lineComments),
                      fileCommentCount |-> Len(fileComments),
                      skippedCount |-> Len(skippedComments)]))
  /\ \E outcome \in CommentOutcomes :
       pc' = IF SummaryThrows(outcome) THEN "threw" ELSE "done"
  /\ UNCHANGED <<diffOutcome, shaOutcome, commitId, i, batch, j, successCount,
                 failCount, fileIdx, commentsByFile, skipIdx, batchOutcomes,
                 firstFailed, undelivered, pauses, pausedAfter>>
  /\ UNCHANGED <<planVars, planInputVars, resolveVars, parseVars, positionMap,
                 commentVars>>

Next ==
  \/ GetPullRequestDiff
  \/ GetHeadCommitSha
  \/ SubmitBatch
  \/ SubmitIndividually
  \/ SubmitFileComment
  \/ SubmitSkippedComment
  \/ SubmitFinalSummary

Spec == Init /\ [][Next]_vars


(***************************************************************************)
(*                 THE POSITION RESOLVER AND THE PLANNER                   *)
(***************************************************************************)

(***************************************************************************)
(* null (lines 481, 491) and a missing issue.line (line 530: undefined and *)
(* 0 are both falsy), as integers outside the positions and the lines.     *)
(***************************************************************************)
Null == -1
NoLine == 0

Abs(x) == IF x < 0 THEN -x ELSE x

(***************************************************************************)
(* Line 496: distance <= 3.                                                *)
(***************************************************************************)
WithinReachOfFour(distance) == distance <= 4

WithinReach(distance) == distance <= 3

(***************************************************************************)
(* Lines 491-500: the scan of fileMap.entries() in insertion order, from   *)
(* entry x on.  minDistance = Null stands for Infinity.                    *)
(***************************************************************************)
RECURSIVE ClosestLastEncountered(_, _, _, _, _)
ClosestLastEncountered(fileMap, ln, x, minDistance, closestPosition) ==
  IF x > Len(fileMap) THEN closestPosition
  ELSE LET distance == Abs(fileMap[x].line - ln)
       IN IF (minDistance = Null \/ distance <= minDistance)
             /\ WithinReach(distance)
          THEN ClosestLastEncountered(fileMap, ln, x + 1, distance,
                                      fileMap[x].position)
          ELSE ClosestLastEncountered(fileMap, ln, x + 1, minDistance,
                                      closestPosition)

RECURSIVE Closest(_, _, _, _, _)
Closest(fileMap, ln, x, minDistance, closestPosition) ==
  IF x > Len(fileMap) THEN closestPosition
  ELSE LET distance == Abs(fileMap[x].line - ln)
       IN IF (minDistance = Null \/ distance < minDistance)
             /\ WithinReach(distance)
          THEN Closest(fileMap, ln, x + 1, distance, fileMap[x].position)
          ELSE Closest(fileMap, ln, x + 1, minDistance, closestPosition)

(***************************************************************************)
(* findPositionInMap, lines 473-507.                                       *)
(***************************************************************************)
FindPositionInMapFirstInReach(fp, ln, pm) ==
  IF fp \notin DOMAIN pm THEN Null
  ELSE LET fileMap == pm[fp]
           near == {x \in 1..Len(fileMap) :
                      WithinReach(Abs(fileMap[x].line - ln))}
       IN IF near = {} THEN Null
          ELSE fileMap[CHOOSE x \in near : \A y \in near : x <= y].position

FindPositionInMap(fp, ln, pm) ==
  IF fp \notin DOMAIN pm THEN Null
  ELSE LET fileMap == pm[fp]
           exact == {x \in 1..Len(fileMap) : fileMap[x].line = ln}
       IN IF exact # {}
          THEN fileMap[CHOOSE x \in exact : TRUE].position
          ELSE Closest(fileMap, ln, 1, Null, Null)

(***************************************************************************)
(* Map.prototype.set on a Map held as a sequence of [file, issues] in      *)
(* insertion order: an existing key keeps its place and gets the new value.*)
(***************************************************************************)
MapSet(map, file, issues) ==
  IF \E x \in 1..Len(map) : map[x].file = file
  THEN [x \in 1..Len(map) |->
          IF map[x].file = file THEN [file |-> file, issues |-> issues]
          ELSE map[x]]
  ELSE Append(map, [file |-> file, issues |-> issues])

(***************************************************************************)
(* Line 530: if (issue.line).                                              *)
(***************************************************************************)
HasLine(issue) == issue.line # NoLine

HasNoLine(issue) == ~ HasLine(issue)

(***************************************************************************)
(* formatIssueComment, lines 764-782: the body renders the issue's         *)
(* message, which the model holds as the issue's id.                       *)
(***************************************************************************)
FormatIssueComment(issue) == issue.id

(***************************************************************************)
(* prepareComments, lines 538-555: the issues with a line number of one    *)
(* result, in order.                                                       *)
(***************************************************************************)
RECURSIVE RouteLineIssuesNewestFirst(_, _, _, _)
RouteLineIssuesNewestFirst(file, lineIssues, pm, acc) ==
  IF lineIssues = <<>> THEN acc
  ELSE LET issue == Head(lineIssues)
           position == FindPositionInMap(file, issue.line, pm)
       IN RouteLineIssuesNewestFirst(file, Tail(lineIssues), pm,
            IF position # Null
            THEN [acc EXCEPT !.lineComments =
                    <<[path |-> file, position |-> position,
                       body |-> FormatIssueComment(issue)]>> \o @]
            ELSE [acc EXCEPT !.skippedComments =
                    <<[file |-> file, line |-> issue.line,
                       issue |-> issue]>> \o @])

RECURSIVE RouteLineIssues(_, _, _, _)
RouteLineIssues(file, lineIssues, pm, acc) ==
  IF lineIssues = <<>> THEN acc
  ELSE LET issue == Head(lineIssues)
           position == FindPositionInMap(file, issue.line, pm)
       IN RouteLineIssues(file, Tail(lineIssues), pm,
            IF position # Null
            THEN [acc EXCEPT !.lineComments =
                    Append(@, [path |-> file, position |-> position,
                               body |-> FormatIssueComment(issue)])]
            ELSE [acc EXCEPT !.skippedComments =
                    Append(@, [file |-> file, line |-> issue.line,
                               issue |-> issue])])

(***************************************************************************)
(* prepareComments, lines 524-561: the loop over results.                  *)
(***************************************************************************)
RECURSIVE PrepareLoop(_, _, _)
PrepareLoop(rs, pm, acc) ==
  IF rs = <<>> THEN acc
  ELSE LET result == Head(rs)
           lineIssues == SelectSeq(result.issues, HasLine)
           generalIssues == SelectSeq(result.issues, HasNoLine)
           routed == RouteLineIssues(result.file, lineIssues, pm, acc)
       IN PrepareLoop(Tail(rs), pm,
            IF Len(generalIssues) > 0
            THEN [routed EXCEPT !.fileComments =
                    MapSet(@, result.file, generalIssues)]
            ELSE routed)

(***************************************************************************)
(* prepareComments, lines 512-570.                                         *)
(***************************************************************************)
PrepareComments(rs, pm) ==
  PrepareLoop(rs, pm,
    [lineComments |-> <<>>, fileComments |-> <<>>, skippedComments |-> <<>>])

(***************************************************************************)
(* Inputs.  A position index maps some of the files to tables of entries   *)
(* with distinct lines; the positions are copied, never computed with.     *)
(***************************************************************************)
Positions == {1, 2}

Entries == [line : 1..MaxLine, position : Positions]

Tables(most) ==
  {t \in UNION {[1..m -> Entries] : m \in 0..most} :
     \A x, y \in 1..Len(t) : t[x].line = t[y].line => x = y}

IndexOf(f, t) == [g \in {f} |-> t]

Indexes ==
  {<<>>}
  \cup {IndexOf(f, t) : f \in Files, t \in Tables(MaxEntries)}
  \cup UNION {{[g \in Files |-> IF g = f THEN t ELSE u] : u \in Tables(1)} :
                <<f, t>> \in Files \X Tables(MaxEntries)}

PlanIndexes ==
  {<<>>} \cup {IndexOf(f, t) : f \in Files, t \in Tables(1)}

(***************************************************************************)
(* Review results: up to MaxResults results with up to MaxFindings issues  *)
(* in all; an issue has no line, the first line or the last line, and an   *)
(* id that tells it from every other issue.                                *)
(***************************************************************************)
IssueLines == {NoLine, 1, MaxLine}

LineLists == UNION {[1..m -> IssueLines] : m \in 0..MaxFindings}

RECURSIVE Total(_)
Total(rs) == IF rs = <<>> THEN 0 ELSE Len(Head(rs).issues) + Total(Tail(rs))

WithIds(rs) ==
  [r \in 1..Len(rs) |->
     [file |-> rs[r].file,
      issues |-> [k \in 1..Len(rs[r].issues) |->
                    [line |-> rs[r].issues[k],
                     id |-> (r - 1) * (MaxFindings + 1) + k]]]]

RECURSIVE ResultsWithin(_, _)
ResultsWithin(m, budget) ==
  IF m = 0 THEN {<<>>}
  ELSE UNION {{<<r>> \o rest :
                 rest \in ResultsWithin(m - 1, budget - Len(r.issues))} :
                r \in [file : Files,
                       issues : {l \in LineLists : Len(l) <= budget}]}

ResultLists ==
  {WithIds(rs) :
     rs \in UNION {ResultsWithin(m, MaxFindings) : m \in 0..MaxResults}}

SingleFindings ==
  {WithIds(<<[file |-> f, issues |-> <<l>>]>>) :
     f \in Files, l \in 1..MaxLine}

InitResolve ==
  /\ positionMap \in Indexes
  /\ PipeIdle
  /\ CommentIdle
  /\ PlanIdle
  /\ ResolveIdle
  /\ ParseIdle

InitPlan ==
  /\ positionMap \in PlanIndexes
  /\ PipeIdle
  /\ CommentIdle
  /\ PlanIdle
  /\ ResolveIdle
  /\ ParseIdle

NothingCalled == ~ planned /\ lineNumber = 0

(***************************************************************************)
(* One call of findPositionInMap (as at line 463) on the index.            *)
(***************************************************************************)
CallFindPositionInMap ==
  /\ NothingCalled
  /\ \E fp \in Files, ln \in 1..MaxLine :
       /\ filePath' = fp
       /\ lineNumber' = ln
       /\ found' = FindPositionInMap(fp, ln, positionMap)
  /\ UNCHANGED <<commentVars, pipeVars, planVars, planInputVars, parseVars, positionMap>>

(***************************************************************************)
(* One call of prepareComments (line 307) on results drawn from `inputs`.  *)
(***************************************************************************)
CallPrepareComments(inputs) ==
  /\ NothingCalled
  /\ \E rs \in inputs :
       LET plan == PrepareComments(rs, positionMap)
       IN /\ results' = rs
          /\ planned' = TRUE
          /\ lineComments' = plan.lineComments
          /\ fileComments' = plan.fileComments
          /\ skippedComments' = plan.skippedComments
  /\ UNCHANGED <<commentVars, pipeVars, resolveVars, parseVars, positionMap, firstPlan>>

(***************************************************************************)
(* A second call of prepareComments with the results and the index of the  *)
(* first.  The method works on locals that it creates at each call (lines  *)
(* 520-522) and on its parameters only.                                    *)
(***************************************************************************)
CallPrepareCommentsAgain ==
  /\ planned
  /\ firstPlan = <<>>
  /\ LET plan == PrepareComments(results, positionMap)
     IN /\ firstPlan' = <<lineComments, fileComments, skippedComments>>
        /\ lineComments' = plan.lineComments
        /\ fileComments' = plan.fileComments
        /\ skippedComments' = plan.skippedComments
  /\ UNCHANGED <<commentVars, pipeVars, resolveVars, parseVars, positionMap, results,
                 planned>>

PlanOneFinding == CallPrepareComments(SingleFindings)

PlanResults == CallPrepareComments(ResultLists)

NextResolve ==
  \/ CallFindPositionInMap
  \/ PlanOneFinding

SpecResolve == InitResolve /\ [][NextResolve]_vars

NextPlan ==
  \/ PlanResults
  \/ CallPrepareCommentsAgain

SpecPlan == InitPlan /\ [][NextPlan]_vars

(***************************************************************************)
(*                      THE DIFF POSITION INDEX                            *)
(***************************************************************************)

(***************************************************************************)
(* The lines of a diff text, by what the parser tests of them:             *)
(*   "diff"  `diff --git a/P b/P` for the path P                           *)
(*   "+++"   a line that starts with +++                                   *)
(*   "---"   a line that starts with ---                                   *)
(*   "@@"    a hunk header `@@ -a,b +c,d @@` with newStart = c             *)
(*   "+"     a line that starts with + but not with +++                    *)
(*   "-"     a line that starts with - but not with ---                    *)
(*   " "     any other line                                                *)
(* Lines that start with `diff --git` or @@ without having these forms are *)
(* not among the inputs.                                                   *)
(***************************************************************************)
HunkStarts == {1, 3}

DiffLine(kind, path, newStart) ==
  [kind |-> kind, path |-> path, newStart |-> newStart]

DiffLines ==
  {DiffLine("diff", P, 0) : P \in Files}
  \cup {DiffLine("@@", <<>>, c) : c \in HunkStarts}
  \cup {DiffLine(kind, <<>>, 0) : kind \in {"+++", "---", "+", "-", " "}}

(***************************************************************************)
(* The text of a file header after `diff --git `.                          *)
(***************************************************************************)
HeaderText(P) == <<"a", "/">> \o P \o <<" ", "b", "/">> \o P

(***************************************************************************)
(* Line 401: line.match(/b\/(.+)$/)[1], the text after the leftmost "b/"   *)
(* that is followed by at least one character (<<>> when there is none).   *)
(***************************************************************************)
MatchAfterMarker(text) ==
  LET at == {p \in 1..(Len(text) - 2) : text[p] = "b" /\ text[p + 1] = "/"}
  IN IF at = {} THEN <<>>
     ELSE SubSeq(text, (CHOOSE p \in at : \A q \in at : p <= q) + 2, Len(text))

(***************************************************************************)
(* Line 407: positionMap.set(currentFile, new Map()).                      *)
(***************************************************************************)
NewFileMap(pm, file) ==
  [f \in DOMAIN pm \cup {file} |-> IF f = file THEN <<>> ELSE pm[f]]

(***************************************************************************)
(* Lines 433-436: fileMap.set(currentNewLine, currentPosition) when the    *)
(* index has a table for the file.                                         *)
(***************************************************************************)
TableSet(fileMap, line, position) ==
  IF \E x \in 1..Len(fileMap) : fileMap[x].line = line
  THEN [x \in 1..Len(fileMap) |->
          IF fileMap[x].line = line
          THEN [line |-> line, position |-> position] ELSE fileMap[x]]
  ELSE Append(fileMap, [line |-> line, position |-> position])

Record(pm, file, line, position) ==
  IF file \in DOMAIN pm
  THEN [pm EXCEPT ![file] = TableSet(@, line, position)]
  ELSE pm

(***************************************************************************)
(* Lines 429 and 441: which lines the parser takes for added and removed   *)
(* lines.  The test for +++ and --- at line 413 comes first; every other   *)
(* line within a hunk is taken for a context line (line 447).              *)
(***************************************************************************)
IsAddedLine(line) == line.kind = "+"

TakesRemovedForContext(line) == FALSE

IsRemovedLine(line) == line.kind = "-"

InitParse ==
  /\ positionMap = <<>>
  /\ PipeIdle
  /\ CommentIdle
  /\ PlanIdle
  /\ ResolveIdle
  /\ ParseIdle

(***************************************************************************)
(* Lines 419-420: the hunk header has the form the regular expression      *)
(* asks for, as every @@ line of the inputs has.                           *)
(***************************************************************************)
HunkHeaderMatchesOnFirstCallOnly(line) == line.kind = "@@" /\ calls < 2

HunkHeaderMatches(line) == line.kind = "@@"

(***************************************************************************)
(* parseDiffPositionMap, lines 399-450: the body of the loop over the      *)
(* lines of diffText, for one line.                                        *)
(***************************************************************************)
Consume(line) ==
  CASE line.kind = "diff" ->
         LET match == MatchAfterMarker(HeaderText(line.path))
         IN IF match # <<>>
            THEN /\ currentFile' = match
                 /\ currentPosition' = 0
                 /\ currentNewLine' = 0
                 /\ inHunk' = FALSE
                 /\ positionMap' = NewFileMap(positionMap, match)
            ELSE UNCHANGED <<currentFile, currentPosition,
                             currentNewLine, inHunk, positionMap>>
    [] line.kind \in {"---", "+++"} ->
         UNCHANGED <<currentFile, currentPosition, currentNewLine,
                     inHunk, positionMap>>
    [] line.kind = "@@" ->
         IF HunkHeaderMatches(line)
         THEN /\ currentNewLine' = line.newStart - 1
              /\ currentPosition' = 0
              /\ inHunk' = TRUE
              /\ UNCHANGED <<currentFile, positionMap>>
         ELSE UNCHANGED <<currentFile, currentPosition, currentNewLine,
                          inHunk, positionMap>>
    [] inHunk /\ IsAddedLine(line) ->
         /\ currentPosition' = currentPosition + 1
         /\ currentNewLine' = currentNewLine + 1
         /\ positionMap' = Record(positionMap, currentFile,
                                  currentNewLine + 1, currentPosition + 1)
         /\ UNCHANGED <<currentFile, inHunk>>
    [] inHunk /\ IsRemovedLine(line) ->
         UNCHANGED <<currentFile, currentPosition, currentNewLine,
                     inHunk, positionMap>>
    [] OTHER ->
         IF inHunk
         THEN /\ currentNewLine' = currentNewLine + 1
              /\ currentPosition' = 0
              /\ UNCHANGED <<currentFile, inHunk, positionMap>>
         ELSE UNCHANGED <<currentFile, currentPosition, currentNewLine,
                          inHunk, positionMap>>

(***************************************************************************)
(* parseDiffPositionMap, lines 396-451: one iteration of the loop, on the  *)
(* next line of a text that is drawn line by line.                         *)
(***************************************************************************)
ParseLine ==
  /\ Len(lines) < MaxDiffLines
  /\ \E line \in DiffLines :
       /\ lines' = Append(lines, line)
       /\ Consume(line)
  /\ UNCHANGED <<calls, read, firstIndex>>
  /\ UNCHANGED <<commentVars, pipeVars, planVars, planInputVars, resolveVars>>

NextParse == ParseLine

SpecParse == InitParse /\ [][NextParse]_vars

(***************************************************************************)
(* Two calls of parseDiffPositionMap on the same diff text.                *)
(***************************************************************************)
Texts == UNION {[1..m -> DiffLines] : m \in 0..MaxTextLines}

(***************************************************************************)
(* Lines 388-394: the index and the locals a call starts with.             *)
(***************************************************************************)
EnterParse ==
  /\ positionMap' = <<>>
  /\ currentFile' = <<>>
  /\ currentPosition' = 0
  /\ currentNewLine' = 0
  /\ inHunk' = FALSE
  /\ read' = 0

InitReparse ==
  /\ lines \in Texts
  /\ calls = 1
  /\ positionMap = <<>>
  /\ currentFile = <<>>
  /\ currentPosition = 0
  /\ currentNewLine = 0
  /\ inHunk = FALSE
  /\ read = 0
  /\ firstIndex = <<>>
  /\ PipeIdle
  /\ CommentIdle
  /\ PlanIdle
  /\ ResolveIdle

(***************************************************************************)
(* Lines 396-451: one iteration of the loop of the running call.           *)
(***************************************************************************)
ReadLine ==
  /\ read < Len(lines)
  /\ Consume(lines[read + 1])
  /\ read' = read + 1
  /\ UNCHANGED <<lines, calls, firstIndex>>
  /\ UNCHANGED <<commentVars, pipeVars, planVars, planInputVars, resolveVars>>

(***************************************************************************)
(* Line 453 of the first call, then the entry of the second on the same    *)
(* text.                                                                   *)
(***************************************************************************)
ParseAgain ==
  /\ calls = 1
  /\ read = Len(lines)
  /\ firstIndex' = positionMap
  /\ calls' = 2
  /\ EnterParse
  /\ UNCHANGED lines
  /\ UNCHANGED <<commentVars, pipeVars, planVars, planInputVars, resolveVars>>

NextReparse ==
  \/ ReadLine
  \/ ParseAgain

SpecReparse == InitReparse /\ [][NextReparse]_vars

(***************************************************************************)
(*                  THE SINGLE COMMENT: submitReviewComment                *)
(***************************************************************************)

(***************************************************************************)
(* The GET requests of submitReviewComment (lines 128-137) and of          *)
(* getPullRequestDiff (lines 344-350), in the shape of the other requests. *)
(***************************************************************************)
GetRequest(via) ==
  [api |-> "get", via |-> via, commit |-> "", comments |-> <<>>, body |-> <<>>]

(***************************************************************************)
(* State at the call submitReviewComment(filePath, line, comment): line is *)
(* a line number, or 0 for a call without one (undefined and 0 are both    *)
(* falsy at line 148).                                                     *)
(***************************************************************************)
InitComment ==
  /\ cpc = "getPull"
  /\ filePath \in Files
  /\ lineArg \in 0..MaxLine
  /\ headSha = ""
  /\ fetches = <<>>
  /\ answers = <<>>
  /\ lineNumber = 0
  /\ found = Null
  /\ positionMap = <<>>
  /\ PipeIdle
  /\ PlanIdle
  /\ ParseIdle

(***************************************************************************)
(* Lines 128-145: the pull request is fetched for its head commit; a       *)
(* response that is not ok throws (line 141), and so does a rejected       *)
(* fetch; the catch at line 199 rethrows.  Then line 148: if (line).       *)
(***************************************************************************)
GetPull ==
  /\ cpc = "getPull"
  /\ fetches' = Append(fetches, GetRequest("pull"))
  /\ \E outcome \in FetchOutcomes :
       /\ answers' = Append(answers, outcome)
       /\ IF outcome # "ok"
          THEN /\ cpc' = "raised"
               /\ headSha' = headSha
          ELSE /\ headSha' \in Shas
               /\ cpc' = IF lineArg # NoLine THEN "calcPosition"
                         ELSE "fileNoLine"
  /\ UNCHANGED <<lineArg, pipeVars, planVars, planInputVars, resolveVars,
                 parseVars, positionMap>>

(***************************************************************************)
(* calculatePositionForLine, lines 459-468, called at line 151: the diff   *)
(* is fetched and parsed and the position looked up; whatever is thrown on *)
(* the way is caught and null returned.  Then line 153:                    *)
(* if (position !== null).                                                 *)
(***************************************************************************)
CalculatePositionForLine ==
  /\ cpc = "calcPosition"
  /\ fetches' = Append(fetches, GetRequest("diff"))
  /\ lineNumber' = lineArg
  /\ \E outcome \in FetchOutcomes :
       /\ answers' = Append(answers, outcome)
       /\ IF outcome # "ok"
          THEN /\ positionMap' = positionMap
               /\ found' = Null
          ELSE /\ positionMap' \in PlanIndexes
               /\ found' = FindPositionInMap(filePath, lineArg, positionMap')
  /\ cpc' = IF found' # Null THEN "postReview" ELSE "fileInTry"
  /\ UNCHANGED <<lineArg, headSha, filePath, pipeVars, planVars, planInputVars,
                 parseVars>>

(***************************************************************************)
(* Lines 179-194: where the call goes after the answer to the review       *)
(* request.  Accepted: it returns.  Rejected (and the body read): the      *)
(* file-level comment at line 183, inside the try.  fetch or               *)
(* response.text() threw: the catch at line 191, whose file-level comment  *)
(* is at line 193.                                                         *)
(***************************************************************************)
AfterReviewWithoutFallback(outcome) ==
  CASE outcome = "ok" -> "returned"
    [] outcome = "exception" -> "fileInCatch"
    [] OTHER -> "returned"

AfterReview(outcome) ==
  CASE outcome = "ok" -> "returned"
    [] outcome = "exception" -> "fileInCatch"
    [] OTHER -> "fileInTry"

(***************************************************************************)
(* Lines 155-177: the review request with the one comment.                 *)
(***************************************************************************)
PostReview ==
  /\ cpc = "postReview"
  /\ fetches' = Append(fetches,
                  ReviewRequest("single", headSha,
                    <<[path |-> filePath, position |-> found,
                       body |-> "comment"]>>))
  /\ \E outcome \in ReviewOutcomes :
       /\ answers' = Append(answers, outcome)
       /\ cpc' = AfterReview(outcome)
  /\ UNCHANGED <<lineArg, headSha, pipeVars, planVars, planInputVars,
                 resolveVars, parseVars, positionMap>>

(***************************************************************************)
(* submitFileLevelComment, lines 208-213: one top-level comment through    *)
(* submitReviewSummary, which throws when the comment is not accepted.     *)
(* `thrown` is where the call goes then.                                   *)
(***************************************************************************)
SubmitFileLevelComment(thrown) ==
  /\ fetches' = Append(fetches,
                  CommentRequest("file-level",
                    [file |-> filePath, line |-> lineArg]))
  /\ \E outcome \in CommentOutcomes :
       /\ answers' = Append(answers, outcome)
       /\ cpc' = IF SummaryThrows(outcome) THEN thrown ELSE "returned"
  /\ UNCHANGED <<lineArg, headSha, pipeVars, planVars, planInputVars,
                 resolveVars, parseVars, positionMap>>

(***************************************************************************)
(* Lines 183 and 189: the file-level comment inside the try block; what it *)
(* throws is caught at line 191.                                           *)
(***************************************************************************)
FileLevelInTry ==
  /\ cpc = "fileInTry"
  /\ SubmitFileLevelComment("fileInCatch")

(***************************************************************************)
(* Line 193: the file-level comment of the catch block; what it throws     *)
(* leaves the call through the catch at line 199.                          *)
(***************************************************************************)
FileLevelInCatch ==
  /\ cpc = "fileInCatch"
  /\ SubmitFileLevelComment("raised")

(***************************************************************************)
(* Line 197: the file-level comment of a call without a line number.       *)
(***************************************************************************)
FileLevelNoLine ==
  /\ cpc = "fileNoLine"
  /\ SubmitFileLevelComment("raised")

NextComment ==
  \/ GetPull
  \/ CalculatePositionForLine
  \/ PostReview
  \/ FileLevelInTry
  \/ FileLevelInCatch
  \/ FileLevelNoLine

SpecComment == InitComment /\ [][NextComment]_vars

(***************************************************************************)
(*             PROPERTIES OF THE RESOLVER AND THE PLANNER                  *)
(***************************************************************************)

(***************************************************************************)
(* The findings of the input, each with the file of its result.            *)
(***************************************************************************)
Findings ==
  {[file |-> results[r].file, issue |-> results[r].issues[k]] :
     <<r, k>> \in {p \in (1..Len(results)) \X (1..MaxFindings + 1) :
                    p[2] <= Len(results[p[1]].issues)}}

RECURSIVE IssueCount(_)
IssueCount(fc) ==
  IF fc = <<>> THEN 0 ELSE Len(Head(fc).issues) + IssueCount(Tail(fc))

(***************************************************************************)
(* How often the finding with this id occurs in each bucket.               *)
(***************************************************************************)
InLineComments(id) ==
  Cardinality({x \in 1..Len(lineComments) : lineComments[x].body = id})

InSkippedComments(id) ==
  Cardinality({x \in 1..Len(skippedComments) : skippedComments[x].issue.id = id})

InFileComments(id) ==
  Cardinality({p \in (1..Len(fileComments)) \X (1..MaxFindings + 1) :
                 /\ p[2] <= Len(fileComments[p[1]].issues)
                 /\ fileComments[p[1]].issues[p[2]].id = id})

(***************************************************************************)
(* The entries of the file's table within 3 lines of the line.             *)
(***************************************************************************)
NearEntries(fp, ln) ==
  IF fp \notin DOMAIN positionMap THEN {}
  ELSE {positionMap[fp][x] : x \in {y \in 1..Len(positionMap[fp]) :
          Abs(positionMap[fp][y].line - ln) <= 3}}

(***************************************************************************)
(* C1.  Planner partition completeness: after prepareComments, the number  *)
(* of line comments plus the number of issues in all file comments plus    *)
(* the number of skipped comments equals the number of findings in the     *)
(* input, also when several results name the same file.                    *)
(***************************************************************************)
C1_PartitionCompleteness ==
  planned =>
    Len(lineComments) + IssueCount(fileComments) + Len(skippedComments)
      = Total(results)

(***************************************************************************)
(* C2.  Planner routing: after prepareComments every finding is in exactly *)
(* one of the three buckets; one without a line number is in fileComments, *)
(* one with a line number is in lineComments if and only if                *)
(* findPositionInMap returns a position for its file and line, and in      *)
(* skippedComments otherwise.                                              *)
(***************************************************************************)
C2_Routing ==
  planned =>
    \A f \in Findings :
      LET id == f.issue.id
          resolved == FindPositionInMap(f.file, f.issue.line, positionMap) # Null
      IN /\ InLineComments(id) + InFileComments(id) + InSkippedComments(id) = 1
         /\ f.issue.line = NoLine => InFileComments(id) = 1
         /\ f.issue.line # NoLine =>
              /\ InLineComments(id) = 1 <=> resolved
              /\ InSkippedComments(id) = 1 <=> ~ resolved

(***************************************************************************)
(* Where the two claims above do hold: inputs in which no two results that *)
(* carry an issue without a line number name the same file.                *)
(***************************************************************************)
GeneralIssuesInOneResultPerFile ==
  \A r, q \in 1..Len(results) :
    (/\ r # q
     /\ results[r].file = results[q].file
     /\ \E k \in 1..Len(results[r].issues) : results[r].issues[k].line = NoLine
     /\ \E k \in 1..Len(results[q].issues) : results[q].issues[k].line = NoLine)
      => FALSE

PlannerCompleteWhenFilesDistinct ==
  GeneralIssuesInOneResultPerFile => C1_PartitionCompleteness /\ C2_Routing

(***************************************************************************)
(* C12.  Planner determinism and order preservation: a second call of      *)
(* prepareComments with the same results and the same index returns the    *)
(* three buckets of the first; lineComments and skippedComments list their *)
(* findings in the order of the input, and the issues of each file         *)
(* comment are issues without a line number of that file, in the order of  *)
(* the input.  (The ids of the issues increase in input order.)            *)
(***************************************************************************)
C12_DeterministicInInputOrder ==
  planned =>
    /\ firstPlan # <<>> =>
         firstPlan = <<lineComments, fileComments, skippedComments>>
    /\ \A x, y \in 1..Len(lineComments) :
         x < y => lineComments[x].body < lineComments[y].body
    /\ \A x, y \in 1..Len(skippedComments) :
         x < y => skippedComments[x].issue.id < skippedComments[y].issue.id
    /\ \A c \in 1..Len(fileComments) :
         LET issues == fileComments[c].issues
         IN /\ \A x, y \in 1..Len(issues) : x < y => issues[x].id < issues[y].id
            /\ \A x \in 1..Len(issues) :
                 [file |-> fileComments[c].file, issue |-> issues[x]] \in Findings

C12_Witness ==
  /\ planned
  /\ firstPlan # <<>>
  /\ Len(lineComments) = 2
  /\ Len(skippedComments) = 1
  /\ lineComments[1].body < skippedComments[1].issue.id
  /\ skippedComments[1].issue.id < lineComments[2].body

(***************************************************************************)
(* C8.  Resolution is reflexive: when the file's table has an entry for    *)
(* the requested line, findPositionInMap returns the position of that      *)
(* entry, also when other entries lie within 3 lines of it.                *)
(***************************************************************************)
C8_Reflexive ==
  (lineNumber # 0 /\ filePath \in DOMAIN positionMap) =>
    \A x \in 1..Len(positionMap[filePath]) :
      positionMap[filePath][x].line = lineNumber =>
        found = positionMap[filePath][x].position

C8_Witness ==
  /\ lineNumber = 2
  /\ filePath \in DOMAIN positionMap
  /\ Len(positionMap[filePath]) = 2
  /\ positionMap[filePath][1] = [line |-> 3, position |-> 1]
  /\ positionMap[filePath][2] = [line |-> 2, position |-> 2]
  /\ found = 2

(***************************************************************************)
(* C9.  Nearest-neighbor bound: a position returned by findPositionInMap   *)
(* is the position of an entry of the file at most 3 lines from the        *)
(* requested line; the result is null when the file has no table or every  *)
(* entry is farther than 3 lines away, and prepareComments then puts the   *)
(* finding into skippedComments.                                           *)
(***************************************************************************)
C9_NearestNeighborBound ==
  /\ lineNumber # 0 =>
       /\ found # Null =>
            \E e \in NearEntries(filePath, lineNumber) : e.position = found
       /\ NearEntries(filePath, lineNumber) = {} => found = Null
  /\ planned =>
       \A f \in Findings :
         IF NearEntries(f.file, f.issue.line) = {}
         THEN /\ lineComments = <<>>
              /\ skippedComments =
                   <<[file |-> f.file, line |-> f.issue.line, issue |-> f.issue]>>
         ELSE /\ skippedComments = <<>>
              /\ Len(lineComments) = 1
              /\ \E e \in NearEntries(f.file, f.issue.line) :
                   lineComments[1].position = e.position

C9_Witness ==
  /\ planned
  /\ \E f \in Findings :
       /\ f.issue.line = 1
       /\ f.file \in DOMAIN positionMap
       /\ positionMap[f.file] = <<[line |-> 5, position |-> 1]>>
       /\ Len(skippedComments) = 1
       /\ skippedComments[1].issue = f.issue

(***************************************************************************)
(* C17.  Nearest-neighbor choice: when the file's table has no entry for   *)
(* the requested line but has entries within 3 lines of it,                *)
(* findPositionInMap returns the position of the entry at the least        *)
(* distance and, of several entries at that distance, of the one that      *)
(* comes first in the table's insertion order.                             *)
(***************************************************************************)
C17_NearestNeighborChoice ==
  (/\ lineNumber # 0
   /\ filePath \in DOMAIN positionMap
   /\ \A x \in 1..Len(positionMap[filePath]) :
        positionMap[filePath][x].line # lineNumber
   /\ NearEntries(filePath, lineNumber) # {}) =>
    LET fileMap == positionMap[filePath]
        Distance(x) == Abs(fileMap[x].line - lineNumber)
    IN \E x \in 1..Len(fileMap) :
         /\ \A y \in 1..Len(fileMap) :
              Distance(x) < Distance(y) \/ (Distance(x) = Distance(y) /\ x <= y)
         /\ found = fileMap[x].position

C17_Witness ==
  /\ lineNumber = 2
  /\ filePath \in DOMAIN positionMap
  /\ positionMap[filePath] =
       <<[line |-> 3, position |-> 2], [line |-> 1, position |-> 1]>>
  /\ found = 2

(***************************************************************************)
(*                   PROPERTIES OF THE DELIVERY PIPELINE                   *)
(***************************************************************************)

(***************************************************************************)
(* Positions in `requests` of the batch review requests, in order.         *)
(***************************************************************************)
IsBatchPosition(p) == requests[p].via = "batch"

BatchPositions == SelectSeq([p \in 1..Len(requests) |-> p], IsBatchPosition)

(***************************************************************************)
(* The comments submitted individually right after the request at p: the   *)
(* longest run of individual review requests that follows it.              *)
(***************************************************************************)
RunEnd(p) ==
  IF \E q \in (p + 1)..Len(requests) : requests[q].via # "individual"
  THEN CHOOSE q \in (p + 1)..Len(requests) :
         /\ requests[q].via # "individual"
         /\ \A r \in (p + 1)..(q - 1) : requests[r].via = "individual"
  ELSE Len(requests) + 1

IndividualsAfter(p) ==
  [x \in 1..(RunEnd(p) - p - 1) |-> requests[p + x].comments]

IsPrefix(s, t) == Len(s) <= Len(t) /\ \A x \in 1..Len(s) : s[x] = t[x]

EachAlone(s) == [x \in 1..Len(s) |-> <<s[x]>>]

RunEnded == pc \in {"done", "threw"}

BatchStageOver == pc \in {"files", "skipped", "summary", "done", "threw"}

Attempted(via) == \E p \in 1..Len(requests) : requests[p].via = via

(***************************************************************************)
(* C3.  Best-effort delivery: once the diff text and the head commit have  *)
(* been fetched, a run that has ended has attempted every non-empty stage  *)
(* and the final summary comment, whatever failed on the way.              *)
(***************************************************************************)
C3_BestEffortDelivery ==
  (RunEnded /\ diffOutcome = "ok" /\ shaOutcome = "ok") =>
    /\ Attempted("summary")
    /\ fileComments # <<>> => Attempted("file")
    /\ skippedComments # <<>> => Attempted("skipped")

(***************************************************************************)
(* C4.  Fatal prerequisite failure: when the fetch of the diff text or of  *)
(* the head commit fails, the run has thrown to its caller and no review   *)
(* request and no top-level comment has been sent.                         *)
(***************************************************************************)
C4_FatalPrerequisite ==
  (diffOutcome \in {"rejected", "exception"}
     \/ shaOutcome \in {"rejected", "exception"}) =>
    /\ pc = "threw"
    /\ requests = <<>>

C4_Witness ==
  /\ diffOutcome = "ok"
  /\ shaOutcome = "rejected"
  /\ pc = "threw"

(***************************************************************************)
(* C5.  Batch size invariant: the k-th batch review request carries the    *)
(* comments at indices 10(k-1) .. min(10k-1, n-1) of lineComments in their *)
(* planned order (so 1 to 10 comments, fewer than 10 only in the last),    *)
(* and once the batch stage is over exactly ceil(n / 10) batch requests    *)
(* have been sent, whatever the answers were.                              *)
(***************************************************************************)
C5_BatchSize ==
  LET n == Len(lineComments)
      at == BatchPositions
      count == Len(at)
  IN /\ count <= (n + 9) \div 10
     /\ \A k \in 1..count :
          LET sent == requests[at[k]].comments
          IN /\ sent = [x \in 1..(Min(10 * k, n) - 10 * (k - 1)) |->
                          lineComments[10 * (k - 1) + x]]
             /\ Len(sent) \in 1..10
             /\ Len(sent) < 10 => k = (n + 9) \div 10
     /\ (BatchStageOver /\ shaOutcome = "ok") => count = (n + 9) \div 10

C5_Witness ==
  /\ pc = "done"
  /\ Len(lineComments) = 25
  /\ batchOutcomes = <<"rejected", "422", "ok">>
  /\ Len(requests[BatchPositions[3]].comments) = 5

RECURSIVE SizeOfBatches(_, _, _)
SizeOfBatches(at, k, counted) ==
  IF k = 0 THEN 0
  ELSE SizeOfBatches(at, k - 1, counted)
       + (IF batchOutcomes[k] \in counted
          THEN Len(requests[at[k]].comments) ELSE 0)

C7_BatchFailure ==
  LET at == BatchPositions
  IN /\ Len(at) = Len(batchOutcomes)
     /\ \A k \in 1..Len(batchOutcomes) :
          batchOutcomes[k] \in {"rejected", "exception"} =>
            /\ IndividualsAfter(at[k]) = <<>>
            /\ at[k] < Len(requests) =>
                 requests[at[k] + 1].comments # requests[at[k]].comments
            /\ 10 * k < Len(lineComments) =>
                 \/ k < Len(batchOutcomes)
                 \/ pc = "batch" /\ i = 10 * k
     /\ failCount =
          SizeOfBatches(at, Len(at), {"422", "rejected", "exception"})
     /\ successCount = SizeOfBatches(at, Len(at), {"ok"})

C7_Witness ==
  /\ pc = "done"
  /\ batchOutcomes = <<"exception", "rejected", "ok">>
  /\ failCount = 20
  /\ Cardinality({p \in 1..Len(requests) : requests[p].api = "reviews"}) = 3

(***************************************************************************)
(* C11.  Failures are reflected in the final summary: the line-comment     *)
(* count stated in the closing summary comment is the number of line       *)
(* comments the forge accepted, in a batch or in an individual fallback    *)
(* submission: the number planned when all of them were delivered, and a   *)
(* smaller number when some were not.                                      *)
(***************************************************************************)
C11_SummaryCountsDelivered ==
  \A p \in 1..Len(requests) :
    requests[p].via = "summary" =>
      IF undelivered
      THEN requests[p].body.lineCommentCount < Len(lineComments)
      ELSE requests[p].body.lineCommentCount = Len(lineComments)

(***************************************************************************)
(* The escalation comments sent so far, in order, and what the plan says   *)
(* about a file: where it first occurs in skippedComments, and its skipped *)
(* findings as (line, finding) pairs in the order of skippedComments.      *)
(***************************************************************************)
IsEscalation(request) == request.via = "skipped"

Escalations == SelectSeq(requests, IsEscalation)

SkippedFiles == {skippedComments[x].file : x \in 1..Len(skippedComments)}

FirstOccurrence(f) ==
  CHOOSE x \in 1..Len(skippedComments) :
    /\ skippedComments[x].file = f
    /\ \A y \in 1..(x - 1) : skippedComments[y].file # f

SkippedOfFile(f) ==
  LET OfFile(comment) == comment.file = f
      own == SelectSeq(skippedComments, OfFile)
  IN [x \in 1..Len(own) |-> [line |-> own[x].line, issue |-> own[x].issue]]

EscalationOver == pc = "summary" \/ Attempted("summary")

(***************************************************************************)
(* C22.  Skipped-comment escalation: nothing is escalated when nothing was *)
(* skipped; and once the escalation stage has run with all its submissions *)
(* accepted, exactly one escalation comment was posted per distinct file   *)
(* of skippedComments, the files in order of first occurrence, each        *)
(* comment listing every skipped (line, finding) of its file in the order  *)
(* of skippedComments, so that every skipped finding is in exactly one     *)
(* escalation comment.                                                     *)
(***************************************************************************)
C22_SkippedEscalation ==
  LET sent == Escalations
  IN /\ skippedComments = <<>> => sent = <<>>
     /\ \A a, b \in 1..Len(sent) : sent[a].body.file = sent[b].body.file => a = b
     /\ EscalationOver =>
          /\ {sent[a].body.file : a \in 1..Len(sent)} = SkippedFiles
          /\ Len(sent) = Cardinality(SkippedFiles)
          /\ \A a, b \in 1..Len(sent) :
               a < b => FirstOccurrence(sent[a].body.file)
                          < FirstOccurrence(sent[b].body.file)
          /\ \A a \in 1..Len(sent) :
               sent[a].body.issues = SkippedOfFile(sent[a].body.file)
          /\ \A x \in 1..Len(skippedComments) :
               Cardinality(
                 {a \in 1..Len(sent) :
                    \E y \in 1..Len(sent[a].body.issues) :
                      sent[a].body.issues[y] =
                        [line |-> skippedComments[x].line,
                         issue |-> skippedComments[x].issue]}) = 1

C22_Witness ==
  /\ pc = "done"
  /\ Len(skippedComments) = 3
  /\ skippedComments[1].file = <<"b", "/", "x">>
  /\ skippedComments[2].file = <<"x">>
  /\ skippedComments[3].file = <<"b", "/", "x">>
  /\ Len(Escalations) = 2
  /\ Escalations[1].body.file = <<"b", "/", "x">>
  /\ Len(Escalations[1].body.issues) = 2
  /\ Escalations[2].body.file = <<"x">>

(***************************************************************************)
(* The line comments carried by the k-th batch request, the individual     *)
(* review requests sent so far, and the line comments they carry.          *)
(***************************************************************************)
Range(s) == {s[x] : x \in 1..Len(s)}

BatchSet(k) == Range(requests[BatchPositions[k]].comments)

IsIndividual(request) == request.via = "individual"

Individuals == SelectSeq(requests, IsIndividual)

SentAlone == UNION {Range(Individuals[q].comments) : q \in 1..Len(Individuals)}

(***************************************************************************)
(* C23.  No double delivery of line comments: each planned line comment is *)
(* sent in at most one batch request (in exactly one once the batch stage  *)
(* is over) and at most once individually, and individually only after the *)
(* batch request that carried it was answered with 422.  With a forge that *)
(* accepts or rejects a review request as a whole, at most one request     *)
(* that carries the comment can have been accepted: no comment of a batch  *)
(* with another answer than 422 is carried by an individual request.       *)
(***************************************************************************)
C23_NoDoubleDelivery ==
  LET at == BatchPositions
      batches == Len(at)
      carried == [k \in 1..batches |-> Range(requests[at[k]].comments)]
      alone == SentAlone
      inPlan == Range(lineComments)
  IN /\ \A k \in 1..batches :
          /\ Cardinality(carried[k]) = Len(requests[at[k]].comments)
          /\ carried[k] \subseteq inPlan
          /\ \A l \in (k + 1)..batches : carried[k] \cap carried[l] = {}
          /\ batchOutcomes[k] # "422" => carried[k] \cap alone = {}
     /\ (BatchStageOver /\ shaOutcome = "ok") =>
          UNION {carried[k] : k \in 1..batches} = inPlan
     /\ Cardinality(alone) = Len(Individuals)
     /\ \A q \in 1..Len(requests) :
          requests[q].via = "individual" =>
            /\ Len(requests[q].comments) = 1
            /\ \E k \in 1..batches :
                 /\ at[k] < q
                 /\ batchOutcomes[k] = "422"
                 /\ requests[q].comments[1] \in carried[k]

C23_Witness ==
  /\ pc = "done"
  /\ Len(lineComments) = 25
  /\ batchOutcomes = <<"422", "ok", "422">>
  /\ lineComments[25] \in BatchSet(3) \cap SentAlone
  /\ lineComments[15] \in BatchSet(2) \ SentAlone
  /\ ~ undelivered

(***************************************************************************)
(* C24.  Line-comment accounting: between the iterations of the batch loop *)
(* and after it successCount + failCount is the number of comments in the  *)
(* batches processed so far (n once the stage is over); the step that      *)
(* receives the answer to a batch request adds the size of the batch to    *)
(* exactly one counter, failCount when the answer is 422 or any other      *)
(* failure; and no other step, the individual fallback submissions among   *)
(* them, changes either counter.                                           *)
(***************************************************************************)
C24_LineCommentAccounting ==
  /\ [](LET n == Len(lineComments)
        IN /\ pc = "batch" => successCount + failCount = i
           /\ pc = "individual" =>
                /\ successCount + failCount = Min(i + batchSize, n)
                /\ failCount >= Len(batch)
           /\ (BatchStageOver /\ shaOutcome = "ok") =>
                successCount + failCount = n)
  /\ [][IF Len(batchOutcomes') = Len(batchOutcomes) + 1
        THEN IF batchOutcomes'[Len(batchOutcomes')] = "ok"
             THEN /\ successCount' = successCount + Len(batch')
                  /\ failCount' = failCount
             ELSE /\ failCount' = failCount + Len(batch')
                  /\ successCount' = successCount
        ELSE /\ successCount' = successCount
             /\ failCount' = failCount]_vars

C24_Witness ==
  /\ BatchStageOver
  /\ Len(lineComments) = 20
  /\ batchOutcomes = <<"ok", "422">>
  /\ Len(Individuals) = 10
  /\ ~ undelivered
  /\ successCount = 10
  /\ failCount = 10

(***************************************************************************)
(* The stage a request belongs to.                                         *)
(***************************************************************************)
StageOf(request) ==
  CASE request.via \in {"batch", "individual"} -> 1
    [] request.via = "file" -> 2
    [] request.via = "skipped" -> 3
    [] request.via = "summary" -> 4

(***************************************************************************)
(* C18.  Strict sequencing: the requests of a run are issued in stage      *)
(* order, every batch and individual review request before the first       *)
(* file-level comment, every file-level comment before the first skipped   *)
(* escalation comment, every one of these before the final summary; and    *)
(* each step of the run, which ends when the answer to its request has     *)
(* been awaited, issues one request, so that no two are in flight.         *)
(***************************************************************************)
C18_StrictSequencing ==
  /\ [](\A p, q \in 1..Len(requests) :
          p < q => /\ StageOf(requests[p]) <= StageOf(requests[q])
                   /\ StageOf(requests[p]) < 4)
  /\ [][/\ Len(requests') <= Len(requests) + 1
        /\ SubSeq(requests', 1, Len(requests)) = requests]_vars

C18_Witness ==
  /\ pc = "done"
  /\ \E p \in 1..Len(requests) :
       /\ p + 4 = Len(requests)
       /\ requests[p].via = "batch"
       /\ requests[p + 1].via = "individual"
       /\ requests[p + 2].via = "file"
       /\ requests[p + 3].via = "skipped"
       /\ requests[p + 4].via = "summary"

(***************************************************************************)
(* C19.  Single commit anchor: the head commit is fetched once, before the *)
(* first submission, and every review request of the run, batch or         *)
(* individual, carries the commit identifier that fetch returned.          *)
(***************************************************************************)
C19_SingleCommitAnchor ==
  /\ [](/\ requests # <<>> => (shaOutcome = "ok" /\ commitId \in Shas)
        /\ \A p \in 1..Len(requests) :
             requests[p].api = "reviews" => requests[p].commit = commitId)
  /\ [][/\ shaOutcome # "none" => shaOutcome' = shaOutcome
        /\ commitId # "" => commitId' = commitId]_vars

C19_Witness ==
  /\ commitId = "sha2"
  /\ Len(requests) > 2
  /\ requests[1].via = "batch"
  /\ requests[1].commit = "sha2"
  /\ requests[Len(requests) - 1].via = "individual"
  /\ requests[Len(requests) - 1].commit = "sha2"
  /\ requests[Len(requests)].via = "batch"
  /\ requests[Len(requests)].commit = "sha2"

(***************************************************************************)
(* C20.  Inter-batch pacing: a 1500 ms pause follows each batch that has a *)
(* successor and not the last, whatever the answer to the batch: when a    *)
(* batch request is issued as many pauses have been taken as batches came  *)
(* before it, and a run with n line comments takes                         *)
(* max(0, ceil(n / 10) - 1) pauses in all.                                 *)
(***************************************************************************)
C20_InterBatchPacing ==
  LET n == Len(lineComments)
      batches == Len(batchOutcomes)
  IN /\ pc = "batch" => pauses = batches
     /\ pc = "individual" => pauses = batches - 1
     /\ BatchStageOver =>
          /\ batches = (n + 9) \div 10
          /\ pauses = IF batches = 0 THEN 0 ELSE batches - 1

C20_Witness ==
  /\ BatchStageOver
  /\ Len(lineComments) = 25
  /\ batchOutcomes = <<"exception", "422", "rejected">>
  /\ pauses = 2

(***************************************************************************)
(* C21.  Fallback pacing: in the individual fallback of a batch rejected   *)
(* with 422, whenever one individual submission has been made and another  *)
(* is about to follow, the 500 ms pause was taken after the earlier one,   *)
(* whatever its outcome (accepted, rejected, or failed in transport).      *)
(***************************************************************************)
C21_FallbackPacing ==
  (pc = "individual" /\ j > 0) => pausedAfter

(***************************************************************************)
(* What does hold: the pause follows every individual submission whose     *)
(* response was read; it is missing only after one that failed in          *)
(* transport.                                                              *)
(***************************************************************************)
LastIndividualFailedInTransport ==
  /\ requests # <<>>
  /\ requests[Len(requests)].via = "individual"
  /\ ~ pausedAfter

PausedAfterEveryAnswer ==
  (pc = "individual" /\ j > 0 /\ ~ pausedAfter) =>
    (undelivered /\ LastIndividualFailedInTransport)

(***************************************************************************)
(*                  PROPERTIES OF THE DIFF POSITION INDEX                  *)
(***************************************************************************)

(***************************************************************************)
(* What the diff text itself says, read as a unified diff: a file header   *)
(* names the file P, a hunk header gives the new-file line of the first    *)
(* line after it, and within a hunk a line is an added line when its first *)
(* character is +, a removed line when it is -, and a context line         *)
(* otherwise; added and context lines each take one new-file line.         *)
(* AddedIn(k) is the set of <<file, new-file line>> of the added lines     *)
(* among the first k lines.                                                *)
(***************************************************************************)
TextAdded(line) == line.kind \in {"+", "+++"}

TextRemoved(line) == line.kind \in {"-", "---"}

RECURSIVE TextState(_)
TextState(k) ==
  IF k = 0
  THEN [file |-> <<>>, hunk |-> FALSE, newLine |-> 0, added |-> {}]
  ELSE LET before == TextState(k - 1)
           line == lines[k]
       IN CASE line.kind = "diff" ->
                 [before EXCEPT !.file = line.path, !.hunk = FALSE]
            [] line.kind = "@@" ->
                 [before EXCEPT !.hunk = TRUE, !.newLine = line.newStart - 1]
            [] before.hunk /\ TextAdded(line) ->
                 [before EXCEPT
                    !.newLine = @ + 1,
                    !.added = IF before.file = <<>> THEN @
                              ELSE @ \cup {<<before.file, before.newLine + 1>>}]
            [] before.hunk /\ TextRemoved(line) -> before
            [] OTHER ->
                 IF before.hunk THEN [before EXCEPT !.newLine = @ + 1]
                 ELSE before

AddedInText == TextState(Len(lines)).added

IndexKeys ==
  UNION {{<<f, positionMap[f][x].line>> : x \in 1..Len(positionMap[f])} :
           f \in DOMAIN positionMap}

(***************************************************************************)
(* C10: for every diff text, every (file, line) key of the index built     *)
(* from it is the new-file line of an added line inside some hunk of that  *)
(* same file; no key stands for a line that was only a context line or a   *)
(* removed line.                                                           *)
(***************************************************************************)
C10_KeysFromAddedLines == IndexKeys \subseteq AddedInText

(***************************************************************************)
(* The same statement for diff texts in which no path contains "b/" and    *)
(* no line starts with +++ or ---.                                         *)
(***************************************************************************)
PlainDiff ==
  \A k \in 1..Len(lines) :
    /\ lines[k].kind = "diff" => lines[k].path = <<"x">>
    /\ lines[k].kind \notin {"+++", "---"}

KeysFromAddedLinesInPlainDiffs == PlainDiff => C10_KeysFromAddedLines

(***************************************************************************)
(* The (line, position) entries of a file's table.                         *)
(***************************************************************************)
EntriesOf(index, f) == {index[f][x] : x \in 1..Len(index[f])}

(***************************************************************************)
(* The line read last, and what the text said before it.                   *)
(***************************************************************************)
LastLine == lines[Len(lines)]

BeforeLast == TextState(Len(lines) - 1)

(***************************************************************************)
(* The number of added lines (lines that start with + but not with +++)    *)
(* among the first k lines since the latest file header, hunk header or    *)
(* other line that is neither added nor removed nor a path header.         *)
(***************************************************************************)
RECURSIVE AddedRun(_)
AddedRun(k) ==
  IF k = 0 THEN 0
  ELSE CASE lines[k].kind \in {"diff", "@@", " "} -> 0
         [] lines[k].kind = "+" -> AddedRun(k - 1) + 1
         [] OTHER -> AddedRun(k - 1)

HasEntry(index, f, line, position) ==
  /\ f \in DOMAIN index
  /\ [line |-> line, position |-> position] \in EntriesOf(index, f)

ScenarioA ==
  <<DiffLine("diff", <<"x">>, 0), DiffLine("@@", <<>>, 1),
    DiffLine(" ", <<>>, 0), DiffLine("+", <<>>, 0),
    DiffLine("-", <<>>, 0), DiffLine("+", <<>>, 0)>>

(***************************************************************************)
(* C14.  Position rule: the position recorded for an added line (a line   *)
(* that starts with + but not with +++) is the number of added lines,      *)
(* itself included, since the latest hunk header or context line; reading  *)
(* a removed line changes neither the position nor                         *)
(* the new-file line nor the index.  The hunk of scenario A (context,      *)
(* added, removed, added after `@@ -1,3 +1,4 @@`) yields exactly the       *)
(* entries 2 -> 1 and 3 -> 2.                                              *)
(***************************************************************************)
C14_PositionRule ==
  /\ [](/\ lines = ScenarioA =>
             /\ DOMAIN positionMap = {<<"x">>}
             /\ EntriesOf(positionMap, <<"x">>) =
                  {[line |-> 2, position |-> 1], [line |-> 3, position |-> 2]}
        /\ (/\ lines # <<>>
            /\ calls = 0
            /\ LastLine.kind = "+"
            /\ BeforeLast.hunk
            /\ currentFile \in DOMAIN positionMap) =>
             (/\ currentPosition = AddedRun(Len(lines))
              /\ HasEntry(positionMap, currentFile, currentNewLine,
                          AddedRun(Len(lines)))))
  /\ [][(/\ Len(lines') = Len(lines) + 1
         /\ lines'[Len(lines')].kind = "-") =>
          UNCHANGED <<currentPosition, currentNewLine, positionMap>>]_vars

C14_Witness ==
  /\ lines = ScenarioA
  /\ positionMap = [f \in {<<"x">>} |->
                      <<[line |-> 2, position |-> 1],
                        [line |-> 3, position |-> 2]>>]

(***************************************************************************)
(* C15.  New-file line numbering: within a hunk whose header gives the new *)
(* start s, the key recorded for an added line is s plus the number of     *)
(* added and context lines before it in the hunk, its line number in the   *)
(* new file, whatever the text of the lines; every added line, also one    *)
(* whose text begins with ++, has its key.                                 *)
(***************************************************************************)
C15_NewFileLineNumbering ==
  (/\ lines # <<>>
   /\ calls = 0
   /\ TextAdded(LastLine)
   /\ BeforeLast.hunk
   /\ currentFile \in DOMAIN positionMap)
    => /\ \E e \in EntriesOf(positionMap, currentFile) :
            e.line = BeforeLast.newLine + 1
       /\ IsAddedLine(LastLine) => currentNewLine = BeforeLast.newLine + 1

(***************************************************************************)
(* C16.  File header handling: after a line `diff --git a/P b/P` the index *)
(* has an empty table under exactly the path P, currentFile is P, the      *)
(* position and the new-file line are 0 and the parser is outside a hunk;  *)
(* the table of P stays empty until a hunk header of P is read, and the    *)
(* added lines of the hunks that follow are recorded under P.              *)
(***************************************************************************)
C16_FileHeader ==
  (lines # <<>> /\ calls = 0) =>
    LET P == TextState(Len(lines)).file
    IN /\ LastLine.kind = "diff" =>
            /\ DOMAIN positionMap \subseteq Files
            /\ P \in DOMAIN positionMap
            /\ positionMap[P] = <<>>
            /\ currentFile = P
            /\ currentPosition = 0
            /\ currentNewLine = 0
            /\ ~ inHunk
       /\ (P # <<>> /\ ~ TextState(Len(lines)).hunk) =>
            (P \in DOMAIN positionMap /\ positionMap[P] = <<>>)
       /\ (P # <<>> /\ BeforeLast.hunk /\ IsAddedLine(LastLine)) =>
            \E position \in 1..Len(lines) :
              HasEntry(positionMap, P, currentNewLine, position)

ReviewAnswers ==
  {answers[p] : p \in {q \in 1..Len(fetches) : fetches[q].api = "reviews"}}

FileLevelAttempts == {p \in 1..Len(fetches) : fetches[p].api = "comments"}

AcceptedComments ==
  {p \in 1..Len(fetches) :
     fetches[p].api \in {"reviews", "comments"} /\ answers[p] = "ok"}

LineAccepted == "ok" \in ReviewAnswers

PositionNotResolved ==
  /\ \E p \in 1..Len(fetches) : fetches[p].via = "diff"
  /\ found = Null

ReviewRejected == ReviewAnswers \cap {"422", "rejected"} # {}

ExceptionInLinePath == "exception" \in ReviewAnswers

CallEnded == cpc \in {"returned", "raised"}

(***************************************************************************)
(* C25.  Single-comment fallback: for a call with a line number, once the  *)
(* call has ended a file-level top-level comment was attempted if and only *)
(* if the position was not resolved, the review request was rejected, or   *)
(* the line-comment path threw, which, once the pull request was fetched,  *)
(* is if and only if no line comment was accepted; after an accepted line  *)
(* comment no file-level comment is ever attempted; in every call at most  *)
(* one comment is accepted; and a call that raised to its caller had no    *)
(* comment accepted.                                                       *)
(***************************************************************************)
C25_SingleCommentFallback ==
  /\ Len(answers) = Len(fetches)
  /\ lineArg # NoLine =>
       /\ LineAccepted => FileLevelAttempts = {}
       /\ CallEnded =>
            (FileLevelAttempts # {}
               <=> (PositionNotResolved \/ ReviewRejected \/ ExceptionInLinePath))
       /\ (CallEnded /\ answers[1] = "ok") =>
            (FileLevelAttempts # {} <=> ~ LineAccepted)
  /\ Cardinality(AcceptedComments) <= 1
  /\ cpc = "raised" => AcceptedComments = {}

C25_Witness ==
  /\ cpc = "returned"
  /\ lineArg = 3
  /\ found # Null
  /\ answers = <<"ok", "ok", "422", "rejected", "ok">>
  /\ Cardinality(FileLevelAttempts) = 2
  /\ AcceptedComments = {5}

====
